---- MODULE Spec2Model ----
(***************************************************************************)
(* A model of the tool-dispatch orchestration engine of the MCP Sentinel   *)
(* agent: LangGraphAgentExecutor (agent_core.py) on top of MCPClient       *)
(* (mcp_helper.py), driven by the Gradio handler bot_response (app.py).    *)
(*                                                                         *)
(* One LangGraphAgentExecutor is shared by every caller (app.py keeps it   *)
(* in the global AGENT).  Each task of the model is one call of invoke();  *)
(* the tasks run on one asyncio event loop, so a step of the model is the  *)
(* code between two await points.  The decision client (the LLM), the      *)
(* worker processes and the caller of cleanup() are the environment.       *)
(***************************************************************************)
EXTENDS Integers, Sequences, FiniteSets, TLC

(***************************************************************************)
(* Bounds of the model.                                                    *)
(***************************************************************************)
\* calls of the decision client over the session: every invoke() makes one,
\* and one more after every response that requests tools
MaxModelCalls == 2

\* the invoke() calls made on the executor (they may overlap)
Tasks == 1..MaxModelCalls

(***************************************************************************)
(* The workers.                                                            *)
(***************************************************************************)
\* agent_core.py:90-94
server_files ==
  <<"computer_info_server.py", "security_server.py", "maintenance_server.py">>

NoProps == {}
CountProp == {[name |-> "count", type |-> "integer"]}

\* One declared tool, as list_tools reports it: name and inputSchema.
ToolInfo(n, props, req) == [name |-> n, properties |-> props, required |-> req]

Scripts == { server_files[s] : s \in 1..Len(server_files) }

\* What the worker scripts of the repository declare on list_tools (a sample
\* of each server's @mcp.tool() functions; a parameter with a default is not
\* required).
Shipped ==
  [script \in Scripts |->
     CASE script = "computer_info_server.py" ->
            <<ToolInfo("get_cpu_info", NoProps, {})>>
       [] script = "security_server.py" ->
            <<ToolInfo("get_open_ports", NoProps, {}),
              ToolInfo("get_auth_logs", CountProp, {})>>
       [] script = "maintenance_server.py" ->
            <<ToolInfo("get_heavy_processes", CountProp, {})>>]

\* The scripts with maintenance_server.py revised to declare a name that
\* security_server.py declares too (as system_monitor_server.py repeats
\* security_server.py's get_active_connections).  The agent takes whatever
\* list_tools answers.
Revised ==
  [Shipped EXCEPT !["maintenance_server.py"] =
     Append(@, ToolInfo("get_open_ports", NoProps, {}))]

(***************************************************************************)
(* MCPClient.get_tools: the schema compiler and the tool wrappers.         *)
(***************************************************************************)
\* mcp_helper.py:49: field_def.get("type", "string")
FieldType(field_def) ==
  IF "type" \in DOMAIN field_def THEN field_def.type ELSE "string"

\* A slip PythonType is checked against: the branch for "number" is missing.
PythonTypeWithoutNumber(field_type) ==
  CASE field_type = "integer" -> "int"
    [] field_type = "boolean" -> "bool"
    [] field_type = "array" -> "list"
    [] field_type = "object" -> "dict"
    [] OTHER -> "str"

\* mcp_helper.py:49-60: the declared type of a property to a python type
PythonType(field_type) ==
  CASE field_type = "integer" -> "int"
    [] field_type = "number" -> "float"
    [] field_type = "boolean" -> "bool"
    [] field_type = "array" -> "list"
    [] field_type = "object" -> "dict"
    [] OTHER -> "str"

\* mcp_helper.py:47-67: the fields handed to create_model, (python_type, ...)
\* for a required field and (python_type, None) for the others
CompileFields(tool_info) ==
  { [name |-> p.name,
     python_type |-> PythonType(FieldType(p)),
     required |-> (p.name \in tool_info.required),
     default |-> IF p.name \in tool_info.required THEN "..." ELSE "None"] :
      p \in tool_info.properties }

(***************************************************************************)
(* Argument values and the pydantic model built from the fields.           *)
(***************************************************************************)
\* Values are written as JSON literals.
IntLiterals == {"5"}
StrLiterals == {"\"five\"", "\"5\""}
OtherLiterals == {"true", "[]", "{}"}

\* pydantic (lax mode): does a value fit a field of this python type.  A
\* numeric string and a boolean are taken for a number; nothing but a string
\* is taken for a string.
FitsType(value, python_type) ==
  CASE python_type = "int" -> value \in IntLiterals \cup {"\"5\"", "true"}
    [] python_type = "float" -> value \in IntLiterals \cup {"\"5\"", "true"}
    [] python_type = "bool" -> value = "true"
    [] python_type = "list" -> value = "[]"
    [] python_type = "dict" -> value = "{}"
    [] python_type = "str" -> value \in StrLiterals
    [] OTHER -> FALSE

\* A slip ArgsModelAccepts is checked against: every field is given the
\* default None, so no field is required.
ArgsModelAllOptional(fields, args) ==
  \A f \in fields : \A a \in args : a.name = f.name => FitsType(a.value, f.python_type)

\* mcp_helper.py:64-73: the ArgsModel accepts an argument mapping when every
\* required field is present and every present declared field fits its type
\* (ArgsModel is None, accepting anything, when there are no fields).
ArgsModelAccepts(fields, args) ==
  /\ \A f \in fields : f.required => \E a \in args : a.name = f.name
  /\ \A f \in fields : \A a \in args : a.name = f.name => FitsType(a.value, f.python_type)

(***************************************************************************)
(* Messages.  An id is a tuple: <<0, 0>> for none, <<t, 0>> for the input  *)
(* of invoke t, <<t, n>> for the response the decision client gave invoke  *)
(* t at position n of its graph state, <<t, n, i>> for that response's     *)
(* i-th tool call.                                                         *)
(***************************************************************************)
Message(type, id, content, tool_calls, tool_call_id, name) ==
  [type |-> type, id |-> id, content |-> content, tool_calls |-> tool_calls,
   tool_call_id |-> tool_call_id, name |-> name]

\* agent_core.py:84
SystemMessage == Message("system", <<0, 0>>, "SYSTEM_PROMPT", <<>>, <<>>, "")
\* agent_core.py:218
HumanMessage(user_input) ==
  Message("human", <<user_input, 0>>, "input", <<>>, <<>>, "")
\* the response of llm.ainvoke, agent_core.py:145
AIMessage(id, tool_calls) ==
  Message("ai", id, IF tool_calls = <<>> THEN "text" ELSE "", tool_calls, <<>>, "")
\* agent_core.py:199
ToolMessage(tool_call_id, name, content) ==
  Message("tool", <<0, 0>>, content, <<>>, tool_call_id, name)

ToolCall(id, name, args) == [id |-> id, name |-> name, args |-> args]

(***************************************************************************)
(* The decision client's possible tool requests (the model's inputs).      *)
(***************************************************************************)
NoArgs == {}
Arg(n, v) == {[name |-> n, value |-> v]}

\* a call that fits its tool (worker security_server.py)
OpenPorts == [name |-> "get_open_ports", args |-> NoArgs]
\* a call with a value of the wrong kind (worker security_server.py)
AuthLogsFive == [name |-> "get_auth_logs", args |-> Arg("count", "\"five\"")]
\* a call of a name no worker declares
NmapScan == [name |-> "nmap_scan", args |-> NoArgs]
\* a call that fits its tool and carries an argument the tool does not
\* declare (worker maintenance_server.py)
HeavyProcesses ==
  [name |-> "get_heavy_processes",
   args |-> Arg("count", "5") \cup Arg("verbose", "true")]

\* the tool requests a response of the decision client may carry
Batches ==
  { <<OpenPorts>>,
    <<NmapScan, OpenPorts>>,
    <<AuthLogsFive, HeavyProcesses>>,
    <<HeavyProcesses, AuthLogsFive>> }

(***************************************************************************)
(* State.                                                                  *)
(***************************************************************************)
VARIABLES
  app,                  \* self.app is set (the compiled graph)
  tools,                \* self.tools
  llm_tools,            \* the tools bound to self.llm
  mcp_clients,          \* self.mcp_clients: client ids, in order
  clients,              \* the MCPClient objects, by id
  conversation_history, \* self.conversation_history
  pc,                   \* where each invoke() is
  messages,             \* the graph state's messages of each invoke()
  idx,                  \* execute_tools: position in tool_calls
  results,              \* execute_tools: results
  output,               \* what invoke() returned
  sent,                 \* the call_tool requests sent to worker sessions
  model_calls,          \* calls of the decision client made or due
  startup,              \* how each server file's worker starts up
  declared,             \* what each worker script declares on list_tools
  cleanup,              \* how LangGraphAgentExecutor.cleanup() ended
  input_schema,         \* get_tools on its own: the tool_info being compiled
  args_model,           \* get_tools on its own: the fields of its ArgsModel
  arguments,            \* the argument mapping given to the ArgsModel
  validation            \* where the compilation is, and the model's verdict

vars ==
  <<app, tools, llm_tools, mcp_clients, clients, conversation_history, pc,
    messages, idx, results, output, sent, model_calls, startup, declared,
    cleanup, input_schema, args_model, arguments, validation>>

sessionVars == <<app, tools, llm_tools, mcp_clients, clients>>
toolVars == <<idx, results>>
\* what the machine and the worker scripts are like: fixed over a session
givenVars == <<startup, declared>>

\* the compilation and use of one tool's schema, taken on its own
compilerVars == <<input_schema, args_model, arguments, validation>>
\* the state of the executor and its workers
agentVars ==
  <<app, tools, llm_tools, mcp_clients, clients, conversation_history, pc,
    messages, idx, results, output, sent, model_calls, startup, declared,
    cleanup>>

\* mcp_helper.py:38: result.tools, what the script answers to list_tools
Declared(script) == declared[script]

\* The client initialize() creates in invoke t for server file s
\* (agent_core.py:98-99).
ClientOf(t, s) == (t - 1) * Len(server_files) + s
ClientIds == 1..(MaxModelCalls * Len(server_files))
ScriptOf(c) == server_files[((c - 1) % Len(server_files)) + 1]

\* A slip StructuredTool is checked against: the wrapper reads the loop
\* variable tool_info when it is called, after the loop has ended, so it
\* names the last tool the worker declared.
StructuredToolLateBound(client, tool_info) ==
  [name |-> tool_info.name,
   client |-> client,
   call_name |-> Declared(ScriptOf(client))[Len(Declared(ScriptOf(client)))].name,
   args_schema |-> CompileFields(tool_info)]

\* mcp_helper.py:75-87: the StructuredTool of one declared tool.  The
\* wrapper closes over self (the client, hence its session) and tool_name.
StructuredTool(client, tool_info) ==
  [name |-> tool_info.name,
   client |-> client,
   call_name |-> tool_info.name,
   args_schema |-> CompileFields(tool_info)]

RECURSIVE ToolsOf(_, _)
\* mcp_helper.py:39-90: the list get_tools returns for the declared tools
ToolsOf(client, infos) ==
  IF infos = <<>> THEN <<>>
  ELSE <<StructuredTool(client, Head(infos))>> \o ToolsOf(client, Tail(infos))

\* mcp_helper.py:13-17
MCPClient(server_script_path) ==
  [script |-> server_script_path, proc |-> "none", session |-> "none",
   tools_cache |-> <<>>]

\* How one iteration of the loop over server_files ends: connect() and
\* get_tools() succeed, stdio_client fails to spawn the worker, the worker is
\* spawned and the handshake (ClientSession, session.initialize) fails, or
\* connect() succeeds and get_tools() raises.  It is a property of the
\* worker script and the machine: the same each time the script is started.
ServerOutcomes == {"ok", "spawn_failed", "handshake_failed", "list_failed"}

NoOutput == [kind |-> "none", id |-> <<0, 0>>]

\* agent_core.py:79-84 and app.py:7-8
Init ==
  /\ app = FALSE
  /\ tools = <<>>
  /\ llm_tools = <<>>
  /\ mcp_clients = <<>>
  /\ clients = [c \in ClientIds |-> MCPClient(ScriptOf(c))]
  /\ conversation_history = <<SystemMessage>>
  /\ pc = [t \in Tasks |-> "idle"]
  /\ messages = [t \in Tasks |-> <<>>]
  /\ idx = [t \in Tasks |-> 0]
  /\ results = [t \in Tasks |-> <<>>]
  /\ output = [t \in Tasks |-> NoOutput]
  /\ sent = {}
  /\ model_calls = 0
  /\ startup \in [1..Len(server_files) -> ServerOutcomes]
  /\ declared \in {Shipped, Revised}
  \* the revised scripts are explored with every worker starting
  /\ declared = Revised => \A s \in 1..Len(server_files) : startup[s] = "ok"
  /\ cleanup = "no"
  /\ input_schema = ToolInfo("none", NoProps, {})
  /\ args_model = {}
  /\ arguments = NoArgs
  /\ validation = "uncompiled"

(***************************************************************************)
(* invoke(): entry, and initialize().                                      *)
(***************************************************************************)
\* agent_core.py:218
WithUserMessage(history, t) == Append(history, HumanMessage(t))

\* agent_core.py:214-224 and 142-145: the user message is appended to the
\* shared history, the graph starts from a copy of it, and its first node
\* awaits llm.ainvoke
StartGraph(t) ==
  /\ conversation_history' = WithUserMessage(conversation_history, t)
  /\ messages' = [messages EXCEPT ![t] = WithUserMessage(conversation_history, t)]
  /\ pc' = [pc EXCEPT ![t] = "await_llm"]

\* agent_core.py:210-221.  The invokes are numbered in the order they start.
InvokeStart(t) ==
  /\ pc[t] = "idle"
  /\ t > 1 => pc[t - 1] # "idle"
  /\ cleanup = "no"
  /\ model_calls < MaxModelCalls
  /\ model_calls' = model_calls + 1
  /\ IF ~app
     THEN /\ pc' = [pc EXCEPT ![t] = "initialize"]
          /\ UNCHANGED <<conversation_history, messages>>
     ELSE StartGraph(t)
  /\ UNCHANGED <<sessionVars, toolVars, output, sent, givenVars, compilerVars, cleanup>>

\* mcp_helper.py:19-32 and 38-89: the client after connect() and get_tools()
Connected(client, outcome) ==
  CASE outcome = "ok" ->
         [client EXCEPT !.proc = "running", !.session = "open",
                        !.tools_cache = Declared(client.script)]
    [] outcome = "list_failed" ->
         [client EXCEPT !.proc = "running", !.session = "open"]
    [] outcome = "handshake_failed" ->
         [client EXCEPT !.proc = "running", !.session = "failed"]
    [] OTHER -> client

\* agent_core.py:100-102 and 106: self.mcp_clients after one iteration
ClientsAfter(mcl, c, outcome) ==
  IF outcome \in {"ok", "list_failed"} THEN Append(mcl, c) ELSE mcl

\* A slip ToolsAfter is checked against: the tools are added although
\* get_tools() raised.
ToolsAfterDespiteFailure(lt, c, outcome) ==
  IF outcome \in {"ok", "list_failed"}
  THEN lt \o ToolsOf(c, Declared(ScriptOf(c)))
  ELSE lt

\* agent_core.py:103-104 and 106: the local list tools after one iteration
ToolsAfter(lt, c, outcome) ==
  IF outcome = "ok" THEN lt \o ToolsOf(c, Declared(ScriptOf(c))) ELSE lt

RECURSIVE ClientListAfter(_, _, _)
\* agent_core.py:97-107: self.mcp_clients after the first s iterations
ClientListAfter(mcl, t, s) ==
  IF s = 0 THEN mcl
  ELSE ClientsAfter(ClientListAfter(mcl, t, s - 1), ClientOf(t, s), startup[s])

RECURSIVE ToolListAfter(_, _)
\* agent_core.py:96-107: the local list tools after the first s iterations
ToolListAfter(t, s) ==
  IF s = 0 THEN <<>>
  ELSE ToolsAfter(ToolListAfter(t, s - 1), ClientOf(t, s), startup[s])

\* agent_core.py:86-140 and then 214-224.  The iterations of two overlapping
\* initialize() touch different clients and their own local lists, so the
\* loop of one initialize() is taken in one step; this leaves out only the
\* orders of self.mcp_clients in which the clients of two calls alternate.
Initialize(t) ==
  /\ pc[t] = "initialize"
  /\ clients' =
       [c \in ClientIds |->
          IF \E s \in 1..Len(server_files) : c = ClientOf(t, s)
          THEN Connected(clients[c],
                         startup[CHOOSE s \in 1..Len(server_files) : c = ClientOf(t, s)])
          ELSE clients[c]]
  /\ mcp_clients' = ClientListAfter(mcp_clients, t, Len(server_files))
  /\ tools' = ToolListAfter(t, Len(server_files))
  /\ llm_tools' = ToolListAfter(t, Len(server_files))
  /\ app' = TRUE
  /\ StartGraph(t)
  /\ UNCHANGED <<toolVars, output, sent, model_calls, givenVars, compilerVars, cleanup>>

(***************************************************************************)
(* The graph: call_model, should_continue, execute_tools.                  *)
(***************************************************************************)
Last(seq) == seq[Len(seq)]

\* agent_core.py:203-208
should_continue(state) ==
  IF Last(state).tool_calls # <<>> THEN "continue" ELSE "end"

\* agent_core.py:230: final_state["messages"][len(self.conversation_history):]
NewMessages(final, history) == SubSeq(final, Len(history) + 1, Len(final))

\* A slip ExtendHistory is checked against: the history is replaced by the
\* final graph state.
ReplaceHistory(history, final) == final

\* agent_core.py:231
ExtendHistory(history, final) == history \o NewMessages(final, history)

\* A slip TextOutput is checked against: the output is taken from the
\* first message of the final state.
TextOutputOfFirst(final) == [kind |-> "text", id |-> Head(final).id]

\* agent_core.py:227-250: the output is the text of the last message
TextOutput(final) == [kind |-> "text", id |-> Last(final).id]

\* agent_core.py:251-255
ErrorOutput == [kind |-> "error", id |-> <<0, 0>>]

\* The response of the decision client to invoke t: a message with the
\* requested calls, each with an id of its own.
Response(t, batch) ==
  LET n == Len(messages[t]) + 1
  IN AIMessage(<<t, n>>,
               [i \in 1..Len(batch) |->
                  ToolCall(<<t, n, i>>, batch[i].name, batch[i].args)])

\* agent_core.py:145-146 with 203-208 and 224-250: the response arrives; it
\* is added to the graph state and the graph goes to the tools or ends, and
\* at the end invoke() folds the new messages into the history
ModelRespond(t, batch) ==
  /\ pc[t] = "await_llm"
  /\ batch # <<>> => model_calls < MaxModelCalls
  /\ LET state == Append(messages[t], Response(t, batch))
     IN /\ messages' = [messages EXCEPT ![t] = state]
        /\ IF should_continue(state) = "continue"
           THEN /\ pc' = [pc EXCEPT ![t] = "tools"]
                /\ idx' = [idx EXCEPT ![t] = 1]
                /\ results' = [results EXCEPT ![t] = <<>>]
                /\ model_calls' = model_calls + 1
                /\ UNCHANGED <<conversation_history, output>>
           ELSE /\ pc' = [pc EXCEPT ![t] = "done"]
                /\ conversation_history' = ExtendHistory(conversation_history, state)
                /\ output' = [output EXCEPT ![t] = TextOutput(state)]
                /\ UNCHANGED <<toolVars, model_calls>>
  /\ UNCHANGED <<sessionVars, sent, givenVars, compilerVars, cleanup>>

\* A slip ModelFails is checked against: no try/except around ainvoke, so
\* the failure of the decision client is raised out of invoke().
ModelFailsUncaught(t) ==
  /\ pc[t] = "await_llm"
  /\ pc' = [pc EXCEPT ![t] = "raised"]
  /\ UNCHANGED <<sessionVars, conversation_history, messages, toolVars, output,
                 sent, model_calls, givenVars, compilerVars, cleanup>>

\* agent_core.py:145 raises, the graph raises, and agent_core.py:251-255
ModelFails(t) ==
  /\ pc[t] = "await_llm"
  /\ pc' = [pc EXCEPT ![t] = "done"]
  /\ output' = [output EXCEPT ![t] = ErrorOutput]
  /\ UNCHANGED <<sessionVars, conversation_history, messages,  toolVars, sent, model_calls, givenVars, compilerVars, cleanup>>

\* agent_core.py:149-150
CurrentCalls(t) == Last(messages[t]).tool_calls
\* A slip CurrentCall is checked against: the calls are taken from the end
\* of the list (as by tool_calls.pop()).
CurrentCallFromEnd(t) == CurrentCalls(t)[Len(CurrentCalls(t)) - idx[t] + 1]
\* agent_core.py:153-156: the tool_call of the current iteration
CurrentCall(t) == CurrentCalls(t)[idx[t]]

\* A slip FindTool is checked against: a name that is not found falls back
\* to the first tool.
FindToolOrFirst(tls, tool_name) ==
  IF \E i \in 1..Len(tls) : tls[i].name = tool_name
  THEN CHOOSE i \in 1..Len(tls) :
         /\ tls[i].name = tool_name
         /\ \A j \in 1..(i - 1) : tls[j].name # tool_name
  ELSE IF tls = <<>> THEN 0 ELSE 1

\* agent_core.py:184: next((t for t in self.tools if t.name == tool_name), None),
\* as the position of the first match, 0 for None
FindTool(tls, tool_name) ==
  IF \E i \in 1..Len(tls) : tls[i].name = tool_name
  THEN CHOOSE i \in 1..Len(tls) :
         /\ tls[i].name = tool_name
         /\ \A j \in 1..(i - 1) : tls[j].name # tool_name
  ELSE 0

\* A slip Request is checked against: the arguments go through the tool's
\* ArgsModel, which keeps the declared fields only.
RequestDeclaredOnly(tool, call) ==
  [client |-> tool.client, name |-> tool.call_name,
   arguments |-> { a \in call.args :
                    \E f \in tool.args_schema : f.name = a.name },
   call_id |-> call.id]

\* mcp_helper.py:76-77: what the wrapper of a tool sends for a call
Request(tool, call) ==
  [client |-> tool.client, name |-> tool.call_name, arguments |-> call.args,
   call_id |-> call.id]

\* agent_core.py:186-191: a found tool's wrapper is awaited with the call's
\* arguments as they are
Dispatched(tool, call) == {Request(tool, call)}

\* A slip Observation is checked against: results.append sits inside the
\* try block, so a call that raised leaves no observation.
ObservationUnlessRaised(call, content) ==
  IF content = "exception" THEN <<>>
  ELSE <<ToolMessage(call.id, call.name, content)>>

\* agent_core.py:191-199: the observation of a call
Observation(call, content) == <<ToolMessage(call.id, call.name, content)>>

\* A slip NextCall is checked against: the edge out of the tools node
\* leads back to the tools node, so the turn is executed again and again.
NextCallToTools(t, res) ==
  IF idx[t] < Len(CurrentCalls(t))
  THEN /\ idx' = [idx EXCEPT ![t] = idx[t] + 1]
       /\ results' = [results EXCEPT ![t] = res]
       /\ pc' = [pc EXCEPT ![t] = "tools"]
       /\ UNCHANGED messages
  ELSE /\ pc' = [pc EXCEPT ![t] = "tools"]
       /\ results' = [results EXCEPT ![t] = <<>>]
       /\ idx' = [idx EXCEPT ![t] = 1]
       /\ UNCHANGED messages

\* agent_core.py:153 and 199-201: on to the next call, or the results are
\* returned and added to the graph state, and the graph goes to the agent,
\* which awaits llm.ainvoke (agent_core.py:142-145)
NextCall(t, res) ==
  IF idx[t] < Len(CurrentCalls(t))
  THEN /\ idx' = [idx EXCEPT ![t] = idx[t] + 1]
       /\ results' = [results EXCEPT ![t] = res]
       /\ pc' = [pc EXCEPT ![t] = "tools"]
       /\ UNCHANGED messages
  ELSE /\ messages' = [messages EXCEPT ![t] = messages[t] \o res]
       /\ pc' = [pc EXCEPT ![t] = "await_llm"]
       /\ results' = [results EXCEPT ![t] = <<>>]
       /\ idx' = [idx EXCEPT ![t] = 0]

\* agent_core.py:153-191: one iteration up to the await of the wrapper, or,
\* for a name that is not found, to its end
ToolDispatch(t) ==
  /\ pc[t] = "tools"
  /\ LET call == CurrentCall(t)
         i == FindTool(tools, call.name)
     IN IF i # 0
        THEN /\ sent' = sent \cup Dispatched(tools[i], call)
             /\ pc' = [pc EXCEPT ![t] = "await_tool"]
             /\ UNCHANGED <<messages, toolVars>>
        ELSE /\ NextCall(t, results[t] \o Observation(call, "not_found"))
             /\ UNCHANGED sent
  /\ UNCHANGED <<sessionVars, conversation_history, output, model_calls,
                 givenVars, compilerVars, cleanup>>

\* What the worker answers to a call it received: FastMCP checks the
\* arguments against the tool function's signature and answers a result
\* flagged isError when they do not fit.
WorkerAnswer(call) ==
  IF \E s \in 1..Len(server_files) : \E i \in 1..Len(Declared(server_files[s])) :
       /\ Declared(server_files[s])[i].name = call.name
       /\ ~ArgsModelAccepts(CompileFields(Declared(server_files[s])[i]), call.args)
  THEN "is_error"
  ELSE "result"

\* A slip ToolReturn is checked against: no try/except around the await, so
\* a call that raises ends the graph and invoke() returns the error.
ToolReturnUncaught(t, raises) ==
  /\ pc[t] = "await_tool"
  /\ IF raises
     THEN /\ pc' = [pc EXCEPT ![t] = "done"]
          /\ output' = [output EXCEPT ![t] = ErrorOutput]
          /\ UNCHANGED <<messages, toolVars>>
     ELSE /\ NextCall(t, results[t] \o
                         Observation(CurrentCall(t), WorkerAnswer(CurrentCall(t))))
          /\ UNCHANGED output
  /\ UNCHANGED <<sessionVars, conversation_history, sent, model_calls, givenVars, compilerVars,
                 cleanup>>

\* agent_core.py:189-199: the awaited wrapper returns the worker's answer, or
\* raises (the worker died, the channel is closed)
ToolReturn(t, raises) ==
  /\ pc[t] = "await_tool"
  /\ NextCall(t, results[t] \o
                 Observation(CurrentCall(t),
                             IF raises THEN "exception"
                             ELSE WorkerAnswer(CurrentCall(t))))
  /\ UNCHANGED <<sessionVars, conversation_history, output, sent,
                 model_calls, givenVars, compilerVars, cleanup>>

\* mcp_helper.py:77: the worker never answers; call_tool is awaited with no
\* timeout, and nothing in agent_core.py:189 bounds the wait
WorkerSilent(t) ==
  /\ pc[t] = "await_tool"
  /\ pc' = [pc EXCEPT ![t] = "hung"]
  /\ UNCHANGED <<sessionVars, conversation_history, messages,  toolVars, output, sent, model_calls, givenVars, compilerVars, cleanup>>

(***************************************************************************)
(* Teardown.                                                               *)
(***************************************************************************)
\* mcp_helper.py:92-93: exit_stack.aclose() leaves the contexts entered by
\* connect(): the session is closed and the worker process terminated
Closed(client) ==
  [client EXCEPT !.proc = IF @ = "running" THEN "terminated" ELSE @,
                 !.session = IF @ = "none" THEN @ ELSE "closed"]

\* agent_core.py:258: the clients cleanup() reaches when the k-th
\* client.cleanup() raises (k = 0: none raises)
Reached(mcl, k) ==
  { mcl[i] : i \in 1..(IF k = 0 THEN Len(mcl) ELSE k) }

\* agent_core.py:257-259: cleanup() is called once no invoke() is running
\* any more; it returns, or the k-th client.cleanup() raises out of it
Cleanup(k) ==
  /\ cleanup = "no"
  /\ \A t \in Tasks : pc[t] \in {"idle", "done", "hung"}
  /\ clients' = [c \in ClientIds |->
                   IF c \in Reached(mcp_clients, k) THEN Closed(clients[c])
                   ELSE clients[c]]
  /\ cleanup' = IF k = 0 THEN "done" ELSE "raised"
  /\ UNCHANGED <<app, tools, llm_tools, mcp_clients, conversation_history, pc,
                 messages, toolVars, output, sent, model_calls, givenVars, compilerVars>>

(***************************************************************************)
(* The specification.                                                      *)
(***************************************************************************)
Next ==
  \/ \E t \in Tasks : InvokeStart(t)
  \/ \E t \in Tasks : Initialize(t)
  \/ \E t \in Tasks : \E b \in Batches \cup {<<>>} : ModelRespond(t, b)
  \/ \E t \in Tasks : ModelFails(t)
  \/ \E t \in Tasks : ToolDispatch(t)
  \/ \E t \in Tasks : \E r \in BOOLEAN : ToolReturn(t, r)
  \/ \E t \in Tasks : WorkerSilent(t)
  \/ \E k \in 0..Len(mcp_clients) : Cleanup(k)

Spec == Init /\ [][Next]_vars

(***************************************************************************)
(* The executor when every tool invocation returns or fails.  The event    *)
(* loop runs every task that is ready, so a step of an invoke() that stays *)
(* possible is taken; the decision client and the workers answer or fail.  *)
(* The decision client asks for tools a bounded number of times.           *)
(***************************************************************************)
ReturningNext ==
  \/ \E t \in Tasks : InvokeStart(t)
  \/ \E t \in Tasks : Initialize(t)
  \/ \E t \in Tasks : \E b \in Batches \cup {<<>>} : ModelRespond(t, b)
  \/ \E t \in Tasks : ModelFails(t)
  \/ \E t \in Tasks : ToolDispatch(t)
  \/ \E t \in Tasks : \E r \in BOOLEAN : ToolReturn(t, r)
  \/ \E k \in 0..Len(mcp_clients) : Cleanup(k)

\* the decision client's call of invoke t ends: a response or a failure
ModelAnswers(t) ==
  \/ \E b \in Batches \cup {<<>>} : ModelRespond(t, b)
  \/ ModelFails(t)

Fairness ==
  \A t \in Tasks :
    /\ WF_vars(Initialize(t))
    /\ WF_vars(ModelAnswers(t))
    /\ WF_vars(ToolDispatch(t))
    /\ WF_vars(\E r \in BOOLEAN : ToolReturn(t, r))

ReturningSpec == Init /\ [][ReturningNext]_vars /\ Fairness

(***************************************************************************)
(* The schema compiler of get_tools and the ArgsModel it builds, on their  *)
(* own: a declared tool is compiled and its ArgsModel is given arguments.  *)
(***************************************************************************)
\* the parameter names and the types a worker may declare for them; "null"
\* and "date" stand for the types the compiler has no branch for
FieldNames == {"count", "path"}
FieldTypes ==
  {"integer", "number", "boolean", "array", "object", "string", "null", "date"}

\* inputSchema["properties"]: a definition per name, with or without a type
FieldDefs(n) ==
  {[name |-> n]} \cup { [name |-> n, type |-> ty] : ty \in FieldTypes }

\* the tools a worker may declare
InputSchemas ==
  { ToolInfo("tool", props, req) :
      props \in { ps \in SUBSET (UNION { FieldDefs(n) : n \in FieldNames }) :
                    \A p, q \in ps : p.name = q.name => p = q },
      req \in SUBSET FieldNames }

\* the argument mappings a call may carry
ArgumentSets ==
  { as \in SUBSET { [name |-> n, value |-> v] :
                      n \in FieldNames,
                      v \in IntLiterals \cup StrLiterals \cup OtherLiterals } :
      \A a, b \in as : a.name = b.name => a = b }

\* agent_core.py:79-84 with a tool_info as list_tools may report it
SchemaInit ==
  /\ app = FALSE
  /\ tools = <<>>
  /\ llm_tools = <<>>
  /\ mcp_clients = <<>>
  /\ clients = [c \in ClientIds |-> MCPClient(ScriptOf(c))]
  /\ conversation_history = <<SystemMessage>>
  /\ pc = [t \in Tasks |-> "idle"]
  /\ messages = [t \in Tasks |-> <<>>]
  /\ idx = [t \in Tasks |-> 0]
  /\ results = [t \in Tasks |-> <<>>]
  /\ output = [t \in Tasks |-> NoOutput]
  /\ sent = {}
  /\ model_calls = 0
  /\ startup = [s \in 1..Len(server_files) |-> "ok"]
  /\ declared = Shipped
  /\ cleanup = "no"
  /\ input_schema \in InputSchemas
  /\ args_model = {}
  /\ arguments = NoArgs
  /\ validation = "uncompiled"

\* mcp_helper.py:43-73: the fields of the tool_info are compiled
Compile ==
  /\ validation = "uncompiled"
  /\ args_model' = CompileFields(input_schema)
  /\ validation' = "compiled"
  /\ UNCHANGED <<agentVars, input_schema, arguments>>

\* mcp_helper.py:70-73 and 85: the ArgsModel validates an argument mapping
Validate(kwargs) ==
  /\ validation = "compiled"
  /\ arguments' = kwargs
  /\ validation' = IF ArgsModelAccepts(args_model, kwargs)
                   THEN "accepted" ELSE "rejected"
  /\ UNCHANGED <<agentVars, input_schema, args_model>>

SchemaNext ==
  \/ Compile
  \/ \E kwargs \in ArgumentSets : Validate(kwargs)

SchemaSpec == SchemaInit /\ [][SchemaNext]_vars

(***************************************************************************)
(* Properties.                                                             *)
(***************************************************************************)
IsPrefix(a, b) == Len(a) <= Len(b) /\ SubSeq(b, 1, Len(a)) = a

\* the positions of the observations in msgs that answer the call id
Answers(msgs, id) ==
  { j \in 1..Len(msgs) : msgs[j].type = "tool" /\ msgs[j].tool_call_id = id }

\* every call requested in msgs has exactly one observation in msgs
Complete(msgs) ==
  \A k \in 1..Len(msgs) : \A i \in 1..Len(msgs[k].tool_calls) :
    Cardinality(Answers(msgs, msgs[k].tool_calls[i].id)) = 1

\* every observation in msgs answers a call requested by the assistant
\* message that opened its turn, and stands in that turn
InTurn(msgs) ==
  \A j \in 1..Len(msgs) :
    msgs[j].type = "tool" =>
      \E k \in 1..(j - 1) : \E i \in 1..Len(msgs[k].tool_calls) :
        /\ msgs[k].tool_calls[i].id = msgs[j].tool_call_id
        /\ j <= k + Len(msgs[k].tool_calls)

\* a tool of that name is in self.tools
Registered(tool_name) == \E i \in 1..Len(tools) : tools[i].name = tool_name

\* the server file whose worker client c talks to
ServerOf(c) == ((c - 1) % Len(server_files)) + 1

\* C1: whenever the decision client is being queried, every tool call of
\* every assistant message in the messages it is given has exactly one
\* observation carrying that call's id, whatever the outcomes of the calls
\* were; and the observations of a turn are as many as its calls: every
\* observation answers a call of its turn.
C1_TurnsComplete ==
  \A t \in Tasks :
    pc[t] = "await_llm" => Complete(messages[t]) /\ InTurn(messages[t])

\* C1 witness: the decision client is queried after a turn of two calls, of
\* which one named an unknown tool and the other raised.
C1_Witness ==
  \E t \in Tasks :
    /\ pc[t] = "await_llm"
    /\ \E k \in 1..Len(messages[t]) : Len(messages[t][k].tool_calls) = 2
    /\ \E j \in 1..Len(messages[t]) : messages[t][j].content = "not_found"
    /\ \E j \in 1..Len(messages[t]) : messages[t][j].content = "exception"

\* the decision-client calls that are outstanding
Outstanding == { t \in Tasks : pc[t] = "await_llm" }

\* the responses and observations invoke t has received or produced
Received(t) ==
  { messages[t][j] : j \in { j \in 1..Len(messages[t]) :
                               messages[t][j].type \in {"ai", "tool"} } }

InHistory(m) == \E k \in 1..Len(conversation_history) : conversation_history[k] = m

\* C2: submits on one session are serialized: at most one decision-client
\* call is outstanding at a time, and no assistant message of a submit that
\* returned its text is missing from the conversation history.
C2_SubmitsSerialized ==
  /\ Cardinality(Outstanding) <= 1
  /\ \A t \in Tasks :
       output[t].kind = "text" =>
         \E k \in 1..Len(conversation_history) :
           conversation_history[k].id = output[t].id

\* the steps invoke t can take
TaskStep(t) ==
  \/ InvokeStart(t)
  \/ Initialize(t)
  \/ \E b \in Batches \cup {<<>>} : ModelRespond(t, b)
  \/ ModelFails(t)
  \/ ToolDispatch(t)
  \/ \E r \in BOOLEAN : ToolReturn(t, r)
  \/ WorkerSilent(t)

\* C3: a call the worker never answers does not hold the turn for ever:
\* the invoke that waits for it can go on (to an error observation for the
\* call, after a timeout).
C3_SilentCallTimesOut ==
  \A t \in Tasks : pc[t] = "hung" => ENABLED TaskStep(t)

\* C4: every request sent to a worker carries arguments that the compiled
\* parameter contract of the tool it was resolved to accepts.
C4_ValidatedBeforeSent ==
  \A r \in sent :
    \A i \in 1..Len(tools) :
      (tools[i].client = r.client /\ tools[i].call_name = r.name) =>
        ArgsModelAccepts(tools[i].args_schema, r.arguments)

\* C5: a call whose name matches no tool of the registry sends no request
\* to any worker, gets exactly one observation, carrying the error message
\* and the call's id, as soon as execute_tools has passed it, and does not
\* end the turn: the other calls of the turn are processed and the decision
\* client is queried again.
C5_UnknownToolObserved ==
  \A t \in Tasks : \A k \in 1..Len(messages[t]) :
    \A i \in 1..Len(messages[t][k].tool_calls) :
      LET call == messages[t][k].tool_calls[i]
          seen == IF k < Len(messages[t]) THEN messages[t] ELSE results[t]
      IN ~Registered(call.name) =>
           /\ \A r \in sent : r.call_id # call.id
           /\ (k < Len(messages[t]) \/ idx[t] > i) =>
                /\ Cardinality(Answers(seen, call.id)) = 1
                /\ \A j \in Answers(seen, call.id) :
                     seen[j].content = "not_found" /\ seen[j].name = call.name
           /\ k = Len(messages[t]) => pc[t] \in {"tools", "await_tool", "hung"}
           /\ k < Len(messages[t]) => Complete(SubSeq(messages[t], 1, k + Len(messages[t][k].tool_calls)))

\* C5 witness: a turn with an unknown name first is over: the unknown call
\* has its error observation, the call after it was sent and answered, and
\* the decision client is queried again.
C5_Witness ==
  \E t \in Tasks : \E k \in 1..Len(messages[t]) :
    /\ pc[t] = "await_llm"
    /\ Len(messages[t][k].tool_calls) = 2
    /\ k + 2 <= Len(messages[t])
    /\ ~Registered(messages[t][k].tool_calls[1].name)
    /\ messages[t][k + 1].content = "not_found"
    /\ messages[t][k + 2].content = "result"
    /\ \E r \in sent : r.call_id = messages[t][k].tool_calls[2].id

\* C6: when the wait for a tool call ends, whatever its outcome, the call
\* has its observation and the turn goes on: the next call of the turn is
\* dispatched with the results so far kept, or, after the last call, all
\* the turn's observations are added to the graph state and the decision
\* client is queried again.  The turn is never ended by a failed call, and
\* a call that raised is observed as an error.
C6_FailureIsolated ==
  [][\A t \in Tasks :
       (pc[t] = "await_tool" /\ pc'[t] \notin {"await_tool", "hung"}) =>
         /\ ToolReturn(t, TRUE) =>
              LET new == IF pc'[t] = "tools" THEN results'[t] ELSE messages'[t]
              IN Last(new).content = "exception"
         /\ \/ /\ pc'[t] = "tools"
               /\ idx'[t] = idx[t] + 1
               /\ Len(results'[t]) = Len(results[t]) + 1
               /\ IsPrefix(results[t], results'[t])
               /\ Last(results'[t]).tool_call_id = CurrentCall(t).id
            \/ /\ pc'[t] = "await_llm"
               /\ idx[t] = Len(CurrentCalls(t))
               /\ Len(messages'[t]) = Len(messages[t]) + Len(CurrentCalls(t))
               /\ IsPrefix(messages[t] \o results[t], messages'[t])
               /\ Last(messages'[t]).tool_call_id = CurrentCall(t).id
               /\ Complete(messages'[t])]_vars

\* C6 witness: in one turn the first call raised and the second, made
\* after it, was answered; the decision client is queried again.
C6_Witness ==
  \E t \in Tasks : \E k \in 1..Len(messages[t]) :
    /\ pc[t] = "await_llm"
    /\ Len(messages[t][k].tool_calls) = 2
    /\ k + 2 <= Len(messages[t])
    /\ messages[t][k + 1].content = "exception"
    /\ messages[t][k + 2].content = "result"

\* the tools in the catalogue bound to the decision client and in self.tools
Catalogue ==
  { tools[i] : i \in 1..Len(tools) } \cup { llm_tools[i] : i \in 1..Len(llm_tools) }

\* C7: a worker whose connect() or tool discovery failed has no tool in
\* self.tools nor in the catalogue bound to the decision client, and every
\* invoke() gets past initialize() with the graph built, whatever workers
\* failed.
C7_FailedWorkerContributesNothing ==
  /\ \A tl \in Catalogue : startup[ServerOf(tl.client)] = "ok"
  /\ \A s \in 1..Len(server_files) :
       (app /\ startup[s] = "ok") =>
         \E tl \in Catalogue : ServerOf(tl.client) = s
  /\ \A t \in Tasks : pc[t] \notin {"idle", "initialize"} => app

\* C7 witness: every worker failed, one of each kind of failure; the
\* catalogue is empty and an invoke() has returned the decision client's
\* answer.
C7_Witness ==
  /\ startup = <<"spawn_failed", "handshake_failed", "list_failed">>
  /\ app
  /\ tools = <<>>
  /\ \E t \in Tasks : output[t].kind = "text"

\* C8: after cleanup() has returned, no worker process the session spawned
\* is running and no channel is open.
C8_TeardownReleasesAll ==
  cleanup = "done" =>
    \A c \in ClientIds :
      clients[c].proc # "running" /\ clients[c].session \notin {"open", "failed"}

\* C9: the conversation history starts with the system directive and only
\* grows at its end: every step leaves the history it found as a prefix of
\* the history it leaves.
C9_HistoryAppendOnly ==
  /\ [](conversation_history[1] = SystemMessage)
  /\ [][IsPrefix(conversation_history, conversation_history')]_vars

\* C9 witness: two submits have returned, one with an error and one with
\* the answer, and the history holds both inputs and the answer.
C9_Witness ==
  /\ \E t \in Tasks : output[t].kind = "error"
  /\ \E t \in Tasks : output[t].kind = "text"
  /\ Len(conversation_history) = 4

\* C10: once a submit has returned, every response it received from the
\* decision client and every observation it produced is in the conversation
\* history (stated for a submit that no other submit overlapped).
C10_ReceivedIsInHistory ==
  \A t \in Tasks :
    (pc[t] = "done" /\ \A u \in Tasks \ {t} : pc[u] = "idle") =>
      \A m \in Received(t) : InHistory(m)

\* the requests sent for the tool calls of invoke t
SentBy(t) == { r \in sent : r.call_id[1] = t }

\* the responses the decision client gave invoke t, by position in its
\* graph state (the state starts with the history of the earlier submits)
Responses(t) ==
  { k \in 1..Len(messages[t]) :
      messages[t][k].type = "ai" /\ messages[t][k].id[1] = t }

\* C11: the loop ends exactly when the latest response of the decision
\* client requests no tool: while the tools node runs the last message
\* requests calls; an invoke() that returned a text ended on an assistant
\* message without tool calls, the only such response it received, and its
\* output is that message's text; and after the return nothing more is
\* added to its graph state and no request is sent for it.
C11_EndsOnFinalAnswer ==
  /\ [](\A t \in Tasks :
          /\ pc[t] \in {"tools", "await_tool", "hung"} =>
               should_continue(messages[t]) = "continue"
          /\ output[t].kind = "text" =>
               /\ pc[t] = "done"
               /\ should_continue(messages[t]) = "end"
               /\ Last(messages[t]).type = "ai"
               /\ Last(messages[t]).content = "text"
               /\ output[t].id = Last(messages[t]).id
               /\ \A k \in Responses(t) :
                    k < Len(messages[t]) => messages[t][k].tool_calls # <<>>)
  /\ [][\A t \in Tasks :
          pc[t] = "done" =>
            /\ pc'[t] = "done"
            /\ messages'[t] = messages[t]
            /\ output'[t] = output[t]
            /\ SentBy(t)' = SentBy(t)]_vars

\* C11 witness: System, User, a request of get_open_ports, its observation
\* and the final text: invoke() has returned that text.
C11_Witness ==
  \E t \in Tasks :
    /\ output[t].kind = "text"
    /\ Len(messages[t]) = 5
    /\ messages[t][3].tool_calls # <<>>
    /\ messages[t][3].tool_calls[1].name = "get_open_ports"
    /\ messages[t][4].content = "result"
    /\ output[t].id = messages[t][5].id

\* C12: a step in which the wait for the decision client ends without a
\* response being added is the return of invoke() with the error output:
\* the history and the graph state are left as they are and nothing is
\* sent; the submit makes no step after it; and a submit started once a
\* submit has returned an error enters the graph as any other.
C12_ModelFailureReported ==
  /\ [][\A t \in Tasks :
          (pc[t] = "await_llm" /\ pc'[t] # "await_llm" /\ messages'[t] = messages[t]) =>
            /\ pc'[t] = "done"
            /\ output'[t] = ErrorOutput
            /\ conversation_history' = conversation_history
            /\ sent' = sent
            /\ model_calls' = model_calls]_vars
  /\ [][\A t \in Tasks :
          output[t].kind = "error" =>
            /\ pc'[t] = "done" /\ output'[t] = output[t]
            /\ messages'[t] = messages[t] /\ SentBy(t)' = SentBy(t)
            /\ \A u \in Tasks :
                 (pc[u] = "idle" /\ pc'[u] # "idle") =>
                   /\ pc'[u] = "await_llm"
                   /\ Last(messages'[u]) = HumanMessage(u)]_vars
  /\ [](\A t \in Tasks : pc[t] \in {"idle", "initialize", "await_llm", "tools",
                                    "await_tool", "hung", "done"})

\* C12 witness: the first submit returned an error and the second (made
\* after it, in one of the runs that lead here) returned the answer.
C12_Witness ==
  /\ output[1].kind = "error"
  /\ output[2].kind = "text"
  /\ Len(messages[2]) = 4

\* C13: tool names are unique in the registry and in the catalogue offered
\* to the decision client: no two entries of self.tools, and no two of the
\* bound tools, have the same name.
C13_ToolNamesUnique ==
  /\ \A i, j \in 1..Len(tools) : tools[i].name = tools[j].name => i = j
  /\ \A i, j \in 1..Len(llm_tools) :
       llm_tools[i].name = llm_tools[j].name => i = j

\* the worker (position in server_files) a call of this name is routed to,
\* 0 when the name is not registered
Worker(tool_name) ==
  IF FindTool(tools, tool_name) = 0 THEN 0
  ELSE ServerOf(tools[FindTool(tools, tool_name)].client)

\* C14: a worker that does not answer does not hold back the calls routed
\* to other workers: while a turn waits for a call that its worker never
\* answers, every other call of the turn that is routed to another worker
\* has been sent.
C14_WorkersIndependent ==
  \A t \in Tasks :
    pc[t] = "hung" =>
      \A j \in 1..Len(CurrentCalls(t)) :
        (Worker(CurrentCalls(t)[j].name) \notin {0, Worker(CurrentCall(t).name)}) =>
          \E r \in sent : r.call_id = CurrentCalls(t)[j].id

\* the values of each parameter kind among the literals
ValuesOfKind(kind) ==
  CASE kind = "int" -> {"5"}
    [] kind = "float" -> {"5"}
    [] kind = "bool" -> {"true"}
    [] kind = "list" -> {"[]"}
    [] kind = "dict" -> {"{}"}
    [] kind = "str" -> {"\"five\"", "\"5\""}

\* the mapping gives every field of the model a value of the field's kind
FullySpecified(fields, args) ==
  \A f \in fields :
    \E a \in args : a.name = f.name /\ a.value \in ValuesOfKind(f.python_type)

\* the mapping has no value for some required field of the model
MissesRequired(fields, args) ==
  \E f \in fields : f.required /\ \A a \in args : a.name # f.name

\* C15: the compiled contract accepts every argument set that gives each
\* declared parameter a value of its kind and rejects every argument set
\* that misses a required parameter; a parameter compiled from "integer"
\* takes the value 5 and refuses the value "five".
C15_ValidationSound ==
  validation \in {"accepted", "rejected"} =>
    /\ FullySpecified(args_model, arguments) => validation = "accepted"
    /\ MissesRequired(args_model, arguments) => validation = "rejected"
    /\ \A p \in input_schema.properties : \A a \in arguments :
         ("type" \in DOMAIN p /\ p.type = "integer" /\ a.name = p.name) =>
           /\ a.value = "\"five\"" => validation = "rejected"
           /\ (a.value = "5" /\ Cardinality(input_schema.properties) = 1) =>
                validation = "accepted"

\* C15 witness: count is declared integer and required, path is declared
\* without a type; count = "five" with a path given has been rejected.
C15_Witness ==
  /\ input_schema.properties = {[name |-> "count", type |-> "integer"], [name |-> "path"]}
  /\ input_schema.required = {"count"}
  /\ arguments = {[name |-> "count", value |-> "\"five\""],
                  [name |-> "path", value |-> "\"5\""]}
  /\ validation = "rejected"

\* the parameter kind of each declared type the compiler knows
KnownKinds ==
  [integer |-> "int", number |-> "float", boolean |-> "bool", array |-> "list",
   object |-> "dict", string |-> "str"]

\* C16: compilation is total: it is enabled for every declared tool, and
\* once done the model has exactly one field for each declared property,
\* of the kind of the property's declared type, of the string kind when the
\* type is missing or not one the compiler knows, required exactly when the
\* property's name is in the required list, and with the default None when
\* it is not required.
C16_CompilationTotal ==
  /\ validation = "uncompiled" => ENABLED Compile
  /\ validation # "uncompiled" =>
       /\ { f.name : f \in args_model } = { p.name : p \in input_schema.properties }
       /\ Cardinality(args_model) = Cardinality(input_schema.properties)
       /\ \A p \in input_schema.properties : \A f \in args_model :
            f.name = p.name =>
              /\ f.python_type =
                   IF "type" \in DOMAIN p /\ p.type \in DOMAIN KnownKinds
                   THEN KnownKinds[p.type] ELSE "str"
              /\ f.required <=> p.name \in input_schema.required
              /\ ~f.required => f.default = "None"
              /\ f.required => f.default = "..."

\* C16 witness: a tool with a property of the type number and a property
\* of an unknown type, only the first required, has been compiled.
C16_Witness ==
  /\ validation = "compiled"
  /\ input_schema.properties =
       {[name |-> "count", type |-> "number"], [name |-> "path", type |-> "date"]}
  /\ input_schema.required = {"count"}
  /\ [name |-> "path", python_type |-> "str", required |-> FALSE,
      default |-> "None"] \in args_model

\* C17: shutdown is safe after a failure: whenever cleanup() of the
\* executor has ended, by returning or by the failure of one client's
\* shutdown, no worker of a client in mcp_clients is running any more.
C17_ShutdownReachesAll ==
  cleanup # "no" =>
    \A i \in 1..Len(mcp_clients) : clients[mcp_clients[i]].proc # "running"

\* the tool call a request was sent for
CallOf(r) == messages[r.call_id[1]][r.call_id[2]].tool_calls[r.call_id[3]]

\* C19: every request sent goes to a client whose session was opened and
\* whose worker declared a tool of the requested name, and carries the name
\* and the arguments of the tool call it was sent for.
C19_RoutedToDeclaringWorker ==
  \A r \in sent :
    /\ clients[r.client].session \in {"open", "closed"}
    /\ \E i \in 1..Len(Declared(ScriptOf(r.client))) :
         Declared(ScriptOf(r.client))[i].name = r.name
    /\ \E i \in 1..Len(clients[r.client].tools_cache) :
         clients[r.client].tools_cache[i].name = r.name
    /\ r.name = CallOf(r).name
    /\ r.arguments = CallOf(r).args

\* C19 witness: in one turn get_auth_logs went to the client of
\* security_server.py, which declares it after another tool, and
\* get_heavy_processes to the client of maintenance_server.py.
C19_Witness ==
  /\ \E r \in sent :
       r.name = "get_auth_logs" /\ ScriptOf(r.client) = "security_server.py"
  /\ \E r \in sent :
       r.name = "get_heavy_processes" /\ ScriptOf(r.client) = "maintenance_server.py"

\* the clients of a worker script whose process is running
Running(script) ==
  { c \in ClientIds : clients[c].script = script /\ clients[c].proc = "running" }

\* C20: each worker script runs as at most one process of the session, and
\* mcp_clients holds at most one client of each script.
C20_WorkersStartedOnce ==
  \A script \in Scripts :
    /\ Cardinality(Running(script)) <= 1
    /\ \A i, j \in 1..Len(mcp_clients) :
         ScriptOf(mcp_clients[i]) = ScriptOf(mcp_clients[j]) => i = j

Unanswered(t) ==
  { r \in SentBy(t) :
      Answers(messages[t], r.call_id) = {} /\ Answers(results[t], r.call_id) = {} }

\* C21: inside a turn, the message with the tool requests is in the graph
\* state before any of its calls is dispatched; the calls are taken one at
\* a time in the order of the request: while the tools node runs, the
\* observations so far answer the first calls of the message in order,
\* nothing was sent for a later call, and the only request without an
\* observation is the one being awaited; and once the turn is over the
\* observations stand directly after the request message, in its order.
C21_TurnInOrder ==
  \A t \in Tasks :
    /\ \A r \in SentBy(t) :
         /\ r.call_id[2] \in 1..Len(messages[t])
         /\ r.call_id[3] \in 1..Len(messages[t][r.call_id[2]].tool_calls)
         /\ messages[t][r.call_id[2]].tool_calls[r.call_id[3]].id = r.call_id
    /\ pc[t] \in {"tools", "await_tool", "hung"} =>
         LET calls == Last(messages[t]).tool_calls
         IN /\ idx[t] \in 1..Len(calls)
            /\ Len(results[t]) = idx[t] - 1
            /\ \A i \in 1..Len(results[t]) : results[t][i].tool_call_id = calls[i].id
            /\ \A r \in SentBy(t) :
                 r.call_id[2] = Len(messages[t]) =>
                   r.call_id[3] <= idx[t] /\ (pc[t] = "tools" => r.call_id[3] < idx[t])
            /\ Unanswered(t) \subseteq { r \in SentBy(t) : r.call_id = calls[idx[t]].id }
            /\ pc[t] = "tools" => Unanswered(t) = {}
    /\ pc[t] \notin {"tools", "await_tool", "hung"} => Unanswered(t) = {}
    /\ \A k \in 1..Len(messages[t]) :
         (k < Len(messages[t]) /\ messages[t][k].id[1] = t) =>
           \A i \in 1..Len(messages[t][k].tool_calls) :
             /\ k + i <= Len(messages[t])
             /\ messages[t][k + i].type = "tool"
             /\ messages[t][k + i].tool_call_id = messages[t][k].tool_calls[i].id

\* C21 witness: in a turn of two calls the first was sent and observed and
\* the second is being awaited.
C21_Witness ==
  \E t \in Tasks :
    /\ pc[t] = "await_tool"
    /\ idx[t] = 2
    /\ Len(results[t]) = 1
    /\ Cardinality(SentBy(t)) = 2
    /\ Cardinality(Unanswered(t)) = 1

\* the names the tool a request went to declares as parameters
DeclaredParams(r) ==
  UNION { { p.name : p \in Declared(ScriptOf(r.client))[i].properties } :
            i \in { i \in 1..Len(Declared(ScriptOf(r.client))) :
                      Declared(ScriptOf(r.client))[i].name = r.name } }

\* C22: the arguments of a request are those of the tool call it was sent
\* for: every argument of the call, declared by the tool or not, is in the
\* request with its value, and the request holds no argument the call does
\* not have (no default is filled in for a declared parameter left out).
C22_ArgumentsUnchanged ==
  \A r \in sent :
    /\ \A a \in CallOf(r).args : a \in r.arguments
    /\ \A a \in r.arguments : a \in CallOf(r).args
    /\ \A n \in DeclaredParams(r) :
         (\A a \in CallOf(r).args : a.name # n) => \A a \in r.arguments : a.name # n

\* C22 witness: get_heavy_processes was sent with count, which it declares,
\* and verbose, which it does not.
C22_Witness ==
  \E r \in sent :
    /\ r.name = "get_heavy_processes"
    /\ "count" \in DeclaredParams(r)
    /\ "verbose" \notin DeclaredParams(r)
    /\ [name |-> "verbose", value |-> "true"] \in r.arguments
    /\ [name |-> "count", value |-> "5"] \in r.arguments


RECURSIVE Discovered(_)
\* the tools the clients of the list mcl discovered, in the list's order
Discovered(mcl) ==
  IF mcl = <<>> THEN <<>>
  ELSE ToolsOf(Head(mcl), clients[Head(mcl)].tools_cache) \o Discovered(Tail(mcl))

\* C23: the tools bound to the decision client are the tools execute_tools
\* resolves names against; once initialize() has built the graph they are the
\* concatenation of the tools discovered by the workers that connected and
\* listed their tools; and from then on no step adds, removes or changes an
\* entry of either list.
C23_CatalogueFixed ==
  /\ [](llm_tools = tools)
  /\ [](app => tools = Discovered(mcp_clients))
  /\ [][app => (tools' = tools /\ llm_tools' = llm_tools)]_vars

============================================================================
